---------------------------- MODULE Spec2Model ----------------------------
(***************************************************************************)
(* A model of three parts of the PsychoPy sources:                         *)
(*                                                                         *)
(*   - psychopy/app/idle.py: the idle-task runner.  doIdleTasks() is       *)
(*     called from the GUI thread's idle tick; it starts the tasks of the  *)
(*     ordered `tasks` mapping one at a time, each on a thread of its own, *)
(*     and polls the thread's liveness.                                    *)
(*   - psychopy/iohub/devices/pyXHook.py: the key_states dictionary of     *)
(*     HookManager, updated by updateKeysPressedState for every key press  *)
(*     and key release event.                                              *)
(*     processevents and the records it builds for key and mouse events,   *)
(*     two HookManagers handed the same events, and the hook thread with   *)
(*     run() and cancel().                                                 *)
(*   - psychopy/visual/form.py: Form.importItems, applied to lists of      *)
(*     dicts, dicts, None and the paths of files; the layout of a Form,    *)
(*     draw() and formComplete().                                          *)
(***************************************************************************)
EXTENDS Integers, Sequences, FiniteSets, TLC

VARIABLES
    prefs,        \* prefs.connections: the two flags read at import time
    tasks,        \* the OrderedDict `tasks`: task name -> record (a dict)
    currentTask,  \* the global currentTask: None or the record of a task
    alive,        \* the Thread objects (named by their task) that are alive
    called,       \* called[t]: how often the function of task t was called
    raised,       \* the tasks whose function raised on its thread
    now,          \* the value of time.time() - _t0
    ret,          \* <<v>>: the last doIdleTasks() call returned v; <<>>: none
    retLine,      \* the line of idle.py the last doIdleTasks() call left by
    key_states,   \* HookManager.key_states: keysym -> press count
    keyError,     \* a KeyError was raised by updateKeysPressedState
    lastEvent,    \* per keysym: the kind of the most recent event for it
    pressCount,   \* per keysym: the press events since its last release
    strayRelease, \* a release event arrived for a key with no press before it
    hm,           \* the other fields of the HookManager: mouse and window state
    hookevent,    \* <<r>>: the record the last makekeyhookevent call built
    calls,        \* the callbacks the last processevents call invoked, in order
    built,        \* the records the last processevents call built, in order
    received,     \* <<reply>>: the reply the last processevents call was given
    other,        \* a second HookManager: its key_states and its fields
    pair,         \* <<b1, b2>>: the records the two built for one same event
    handed,       \* the number of events handed to the two HookManagers
    pc,           \* the line of run() the hook thread is at, or its state
    ctx,          \* self.ctx: None before line 125, then the context's state
    finished,     \* self.finished is set: cancel() was called
    cancelError,  \* cancel() raised
    freed,        \* the number of record_free_context calls
    items,        \* the argument `items` of Form.importItems
    outcome,      \* <<r>>: what the importItems call returned or raised
    form,         \* the fields of a Form that was laid out, with its sliders
    drawn         \* the indices of the items the last draw() call drew

idleVars == <<prefs, tasks, currentTask, alive, called, raised, now, ret, retLine>>
hookVars == <<key_states, keyError, lastEvent, pressCount, strayRelease,
              hm, hookevent>>
eventVars == <<calls, built, received>>
pairVars == <<other, pair, handed>>
runVars == <<pc, ctx, finished, cancelError, freed>>
formVars == <<items, outcome>>
widgetVars == <<form, drawn>>
vars == <<prefs, tasks, currentTask, alive, called, raised, now, ret, retLine,
          key_states, keyError, lastEvent, pressCount, strayRelease,
          hm, hookevent, calls, built, received, other, pair, handed,
          pc, ctx, finished, cancelError, freed, items, outcome,
          form, drawn>>

----------------------------------------------------------------------------
(* Bounds of the model. *)

\* time.time() - _t0 takes the values 0..MaxClock
MaxClock == 2
\* a key receives at most MaxPress press events without a release
MaxPress == 3
\* two HookManagers are handed at most MaxEvents events
MaxEvents == 3
\* a list of items, and a file, holds at most MaxItems items
MaxItems == 2
\* an item has at most MaxOptions response options
MaxOptions == 2
\* scroll_y stays within -MaxScroll..MaxScroll
MaxScroll == 1
\* pressedMouseButtons stays within -MaxButtons..MaxButtons
MaxButtons == 1

----------------------------------------------------------------------------
(* psychopy.constants and Python's None *)

NOT_STARTED == "NOT_STARTED"
STARTED == "STARTED"
FINISHED == "FINISHED"
SKIP == "SKIP"
None == "None"
\* None in a time field ('tstart', 'tEnd'), which otherwise holds a number
NoneTime == -1

----------------------------------------------------------------------------
(* idle.py: the tasks mapping *)

\* the keys of `tasks` in insertion order, which is the iteration order
TaskOrder == <<"sendUsageStats", "checkForUpdates", "checkNews", "showTips",
               "checkFFMPG", "updateVersionChooser">>

TaskNames == {TaskOrder[i] : i \in 1..Len(TaskOrder)}

\* the 'func' of each record; showTips has none
TaskFunc(taskName) ==
    CASE taskName = "sendUsageStats" -> "connections.sendUsageStats"
      [] taskName = "checkForUpdates" -> "connections.getLatestVersionInfo"
      [] taskName = "checkNews" -> "connections.getNewsItems"
      [] taskName = "showTips" -> None
      [] taskName = "checkFFMPG" -> "checkFFMPEG"
      [] taskName = "updateVersionChooser" -> "vc._remoteVersions"

\* a variant of lines 42-65 that ignores the allowUsageStats flag
InitialStatus_IgnoreFlag(p, taskName) ==
    CASE taskName = "checkForUpdates" -> SKIP
      [] OTHER -> NOT_STARTED

\* the 'status' each record is created with, given the preferences p
InitialStatus(p, taskName) ==
    CASE taskName = "sendUsageStats" ->
            IF p.allowUsageStats THEN NOT_STARTED ELSE SKIP
      [] taskName = "checkForUpdates" ->
            IF p.checkForUpdates THEN SKIP ELSE SKIP
      [] OTHER -> NOT_STARTED

\* a record as the module creates it: no 'tStart' and no 'thread' key yet
NewTask(p, taskName) ==
    [status |-> InitialStatus(p, taskName),
     func   |-> TaskFunc(taskName),
     tstart |-> NoneTime,
     tEnd   |-> NoneTime]

\* d[key] = value on a Python dict: the key is added when it is missing
SetItem(d, key, value) == (key :> value) @@ d

\* thread.is_alive() of the Thread object stored in record r
IsAlive(al, taskName) == taskName \in al

----------------------------------------------------------------------------
(* idle.py: doIdleTasks and _doTask.  A call runs on the GUI thread; `st`  *)
(* is the state it works on: the mapping, currentTask, the live threads,   *)
(* the call counts, the clock (clk, and dt: how far the clock advances     *)
(* after the call's first reading), and the call's return.                 *)

\* time.time() - _t0
ReadClock(st) == st.clk

\* the clock after a reading: it has advanced by dt, once per call
ClockRead(st) == [st EXCEPT !.clk = @ + st.dt, !.dt = 0]

\* _doTask(taskName, app): a Thread on the task's function is stored in the
\* record and started; the started thread calls the function (a Thread with
\* target None calls nothing)
DoTask(st, taskName) ==
    [st EXCEPT
        !.tasks[taskName] = SetItem(@, "thread", taskName),
        !.alive = @ \cup {taskName},
        !.called[taskName] =
            IF st.tasks[taskName].func = None THEN @ ELSE @ + 1]

\* a variant of lines 101-107 that returns 1 at line 107
StartTask_ReturnsOne(st, taskName) ==
    LET s1 == [st EXCEPT !.currentTask = taskName]
        s2 == ClockRead([s1 EXCEPT
                  !.tasks[taskName] = SetItem(@, "tStart", ReadClock(s1))])
        s3 == [s2 EXCEPT !.tasks[taskName].status = STARTED]
    IN  [DoTask(s3, taskName) EXCEPT !.ret = <<1>>, !.retLine = 107]

\* a variant of lines 101-107 that writes the start time to the 'tstart'
\* key the record was created with
StartTask_tstart(st, taskName) ==
    LET s1 == [st EXCEPT !.currentTask = taskName]
        s2 == ClockRead([s1 EXCEPT
                  !.tasks[taskName] = SetItem(@, "tstart", ReadClock(s1))])
        s3 == [s2 EXCEPT !.tasks[taskName].status = STARTED]
    IN  [DoTask(s3, taskName) EXCEPT !.ret = <<0>>, !.retLine = 107]

\* lines 101-107: the NOT_STARTED branch
StartTask(st, taskName) ==
    LET s1 == [st EXCEPT !.currentTask = taskName]
        s2 == ClockRead([s1 EXCEPT
                  !.tasks[taskName] = SetItem(@, "tStart", ReadClock(s1))])
        s3 == [s2 EXCEPT !.tasks[taskName].status = STARTED]
    IN  [DoTask(s3, taskName) EXCEPT !.ret = <<0>>, !.retLine = 107]

\* a variant of lines 111-116 without line 111: the status stays STARTED
FinishTask_NoStatus(st) ==
    LET cur == st.currentTask
        s2 == [st EXCEPT !.tasks[cur].thread = None]
        s3 == ClockRead([s2 EXCEPT !.tasks[cur].tEnd = ReadClock(s2)])
    IN  [s3 EXCEPT !.currentTask = None]

\* a variant of lines 111-116 that puts the finished task back in line
FinishTask_Retry(st) ==
    LET cur == st.currentTask
        s1 == [st EXCEPT !.tasks[cur].status = NOT_STARTED]
        s2 == [s1 EXCEPT !.tasks[cur].thread = None]
        s3 == ClockRead([s2 EXCEPT !.tasks[cur].tEnd = ReadClock(s2)])
    IN  [s3 EXCEPT !.currentTask = None]

\* a variant of lines 111-116 without line 116: currentTask stays
FinishTask_KeepCurrent(st) ==
    LET cur == st.currentTask
        s1 == [st EXCEPT !.tasks[cur].status = FINISHED]
        s2 == [s1 EXCEPT !.tasks[cur].thread = None]
    IN  ClockRead([s2 EXCEPT !.tasks[cur].tEnd = ReadClock(s2)])

\* lines 111-116: the task finished, so take note
FinishTask(st) ==
    LET cur == st.currentTask
        s1 == [st EXCEPT !.tasks[cur].status = FINISHED]
        s2 == [s1 EXCEPT !.tasks[cur].thread = None]
        s3 == ClockRead([s2 EXCEPT !.tasks[cur].tEnd = ReadClock(s2)])
    IN  [s3 EXCEPT !.currentTask = None]

\* a variant of the liveness test that takes every thread for finished
CurrentThreadAlive_Never(st) == FALSE

\* currentTask['thread'].is_alive(), for a currentTask that is a record
\* holding a Thread
CurrentThreadAlive(st) == IsAlive(st.alive, st.tasks[st.currentTask].thread)

\* currentTask['thread'].is_alive() can be evaluated: currentTask is a
\* record (not None) with a 'thread' key that holds a Thread (not None)
CurrentThreadReadable(st) ==
    /\ st.currentTask # None
    /\ "thread" \in DOMAIN st.tasks[st.currentTask]
    /\ st.tasks[st.currentTask].thread # None

\* the call left by an exception raised at `line`
Raise(st, line) == [st EXCEPT !.ret = <<>>, !.retLine = line]

\* a variant of line 100 that takes a SKIP task for one to start
IsNotStarted_OrSkip(thisStatus) == thisStatus \in {NOT_STARTED, SKIP}

\* line 100: thisStatus == NOT_STARTED
IsNotStarted(thisStatus) == thisStatus = NOT_STARTED

\* a variant of line 108 that takes no task for started
IsStarted_Never(thisStatus) == FALSE

\* line 108: thisStatus == STARTED
IsStarted(thisStatus) == thisStatus = STARTED

\* a variant of lines 97-121 without the return of line 107: the loop goes
\* on after it started a task
RECURSIVE TaskLoop_StartAll(_, _)
TaskLoop_StartAll(st, i) ==
    IF i > Len(TaskOrder)
    THEN [st EXCEPT !.ret = <<1>>, !.retLine = 121]
    ELSE LET taskName == TaskOrder[i]
             thisStatus == st.tasks[taskName].status
         IN  IF IsNotStarted(thisStatus)
             THEN TaskLoop_StartAll(StartTask(st, taskName), i + 1)
             ELSE IF IsStarted(thisStatus)
             THEN IF ~CurrentThreadReadable(st)
                  THEN Raise(st, 109)
                  ELSE IF ~CurrentThreadAlive(st)
                  THEN TaskLoop_StartAll(FinishTask(st), i + 1)
                  ELSE [st EXCEPT !.ret = <<0>>, !.retLine = 119]
             ELSE TaskLoop_StartAll(st, i + 1)

\* lines 97-121: the loop over the mapping from its i-th key on
RECURSIVE TaskLoop(_, _)
TaskLoop(st, i) ==
    IF i > Len(TaskOrder)
    THEN [st EXCEPT !.ret = <<1>>, !.retLine = 121]
    ELSE LET taskName == TaskOrder[i]
             thisStatus == st.tasks[taskName].status
         IN  IF IsNotStarted(thisStatus)
             THEN StartTask(st, taskName)
             ELSE IF IsStarted(thisStatus)
             THEN IF ~CurrentThreadReadable(st)
                  THEN Raise(st, 109)
                  ELSE IF ~CurrentThreadAlive(st)
                  THEN TaskLoop(FinishTask(st), i + 1)
                  ELSE [st EXCEPT !.ret = <<0>>, !.retLine = 119]
             ELSE TaskLoop(st, i + 1)

\* lines 91-121: doIdleTasks(app)
doIdleTasks(st) ==
    IF st.currentTask # None /\ ~CurrentThreadReadable(st)
    THEN Raise(st, 94)
    ELSE IF st.currentTask # None /\ CurrentThreadAlive(st)
    THEN [st EXCEPT !.ret = <<0>>, !.retLine = 95]
    ELSE TaskLoop(st, 1)

----------------------------------------------------------------------------
(* The idle-task runner as a state machine *)

Prefs == [allowUsageStats : BOOLEAN, checkForUpdates : BOOLEAN]

\* no second HookManager
PairQuiet ==
    /\ other = <<>>
    /\ pair = <<>>
    /\ handed = 0

\* no hook thread
RunQuiet ==
    /\ pc = "none"
    /\ ctx = "none"
    /\ finished = FALSE
    /\ cancelError = FALSE
    /\ freed = 0

\* no Form
FormQuiet ==
    /\ items = <<>>
    /\ outcome = <<>>

\* no Form was laid out
WidgetQuiet ==
    /\ form = <<>>
    /\ drawn = {}

IdleInit ==
    /\ prefs \in Prefs
    /\ tasks = [t \in TaskNames |-> NewTask(prefs, t)]
    /\ currentTask = None
    /\ alive = {}
    /\ called = [t \in TaskNames |-> 0]
    /\ raised = {}
    /\ now = 0
    /\ ret = <<>>
    /\ retLine = 0

\* the hook is not running
HookIdle ==
    /\ key_states = <<>>
    /\ keyError = FALSE
    /\ lastEvent = <<>>
    /\ pressCount = <<>>
    /\ strayRelease = FALSE
    /\ hm = <<>>
    /\ hookevent = <<>>
    /\ calls = <<>>
    /\ built = <<>>
    /\ received = <<>>

\* the GUI thread's idle tick calls doIdleTasks(); the clock may advance by
\* dt during the call.  The call is one step: the only thing a worker
\* thread changes under it is a thread's liveness, which goes from alive to
\* dead only; a call that reads "alive" at line 94 returns at once, and one
\* that reads "dead" reads the same at line 109.
DoIdleTasks ==
    \E dt \in 0..1 :
        /\ now + dt <= MaxClock
        /\ LET st == doIdleTasks([tasks |-> tasks, currentTask |-> currentTask,
                                  alive |-> alive, called |-> called,
                                  clk |-> now, dt |-> dt,
                                  ret |-> ret, retLine |-> retLine])
           IN  /\ tasks' = st.tasks
               /\ currentTask' = st.currentTask
               /\ alive' = st.alive
               /\ called' = st.called
               /\ now' = st.clk
               /\ ret' = st.ret
               /\ retLine' = st.retLine
        /\ UNCHANGED <<prefs, raised>>
        /\ UNCHANGED <<hookVars, eventVars, pairVars, runVars, formVars, widgetVars>>

\* a variant of the worker thread that catches what the function raises
\* and notes it in the task's record
ThreadExit_NoteError(t) ==
    /\ t \in alive
    /\ alive' = alive \ {t}
    /\ \E exc \in BOOLEAN :
        /\ exc => tasks[t].func # None
        /\ raised' = IF exc THEN raised \cup {t} ELSE raised
        /\ tasks' = IF exc THEN [tasks EXCEPT ![t] = SetItem(@, "error", TRUE)]
                          ELSE tasks
    /\ UNCHANGED <<prefs, currentTask, called, now, ret, retLine>>
    /\ UNCHANGED <<hookVars, eventVars, pairVars, runVars, formVars, widgetVars>>

\* the function of a worker thread returns, or raises: either way the
\* thread terminates (an exception is printed by the threading module and
\* lost); a thread without a function has nothing that can raise
ThreadExit(t) ==
    /\ t \in alive
    /\ alive' = alive \ {t}
    /\ \E exc \in BOOLEAN :
        /\ exc => tasks[t].func # None
        /\ raised' = IF exc THEN raised \cup {t} ELSE raised
    /\ UNCHANGED <<prefs, tasks, currentTask, called, now, ret, retLine>>
    /\ UNCHANGED <<hookVars, eventVars, pairVars, runVars, formVars, widgetVars>>

\* time passes
Tick ==
    /\ now < MaxClock
    /\ now' = now + 1
    /\ UNCHANGED <<prefs, tasks, currentTask, alive, called, raised, ret, retLine>>
    /\ UNCHANGED <<hookVars, eventVars, pairVars, runVars, formVars, widgetVars>>

Init == IdleInit /\ HookIdle /\ PairQuiet /\ RunQuiet /\ FormQuiet /\ WidgetQuiet

Next ==
    \/ DoIdleTasks
    \/ \E t \in TaskNames : ThreadExit(t)
    \/ Tick

Spec == Init /\ [][Next]_vars

\* doIdleTasks() keeps being called and every started thread terminates
FairSpec ==
    /\ Spec
    /\ WF_vars(DoIdleTasks)
    /\ \A t \in TaskNames : WF_vars(ThreadExit(t))

----------------------------------------------------------------------------
(* pyXHook.py: HookManager.key_states *)

\* the key codes of the events the model delivers
KeyCodes == {38, 39, 254, 255}

\* local_dpy.keycode_to_keysym(key_code, 0): the keysym in column 0 of the
\* server's keyboard mapping, NoSymbol (0) for a key code that has none
keycode_to_keysym(key_code) ==
    CASE key_code = 38 -> 97
      [] key_code = 39 -> 115
      [] OTHER -> 0

Keysyms == {keycode_to_keysym(c) : c \in KeyCodes}

\* Python's dict: d.setdefault(key, default) leaves d with the key set
SetDefault(d, key, default) ==
    IF key \in DOMAIN d THEN d ELSE (key :> default) @@ d

\* d.get(key, default)
Get(d, key, default) == IF key \in DOMAIN d THEN d[key] ELSE default

\* del d[key], for a key that d has (it raises KeyError otherwise)
DelItem(d, key) == [k \in DOMAIN d \ {key} |-> d[k]]

\* lines 160-166
isKeyPressed(ks, keysym) == Get(ks, keysym, 0)

\* a variant of lines 272-279 that reads the count with get(), which does
\* not add the key
updateKeysPressedState_Get(ks, key_code, pressed_event) ==
    LET matchto_sym == keycode_to_keysym(key_code)
        keyautocount == Get(ks, matchto_sym, 0)
    IN  IF pressed_event
        THEN [key_states |-> SetItem(ks, matchto_sym, keyautocount + 1),
              err |-> FALSE]
        ELSE IF matchto_sym \in DOMAIN ks
             THEN [key_states |-> DelItem(ks, matchto_sym), err |-> FALSE]
             ELSE [key_states |-> ks, err |-> TRUE]

\* a variant of lines 272-279 that counts a release down instead of
\* removing the key
updateKeysPressedState_CountDown(ks, key_code, pressed_event) ==
    LET matchto_sym == keycode_to_keysym(key_code)
        ks1 == SetDefault(ks, matchto_sym, 0)
        keyautocount == ks1[matchto_sym]
    IN  IF pressed_event
        THEN [key_states |-> SetItem(ks1, matchto_sym, keyautocount + 1),
              err |-> FALSE]
        ELSE IF keyautocount > 1
             THEN [key_states |-> SetItem(ks1, matchto_sym, keyautocount - 1),
                   err |-> FALSE]
             ELSE [key_states |-> DelItem(ks1, matchto_sym), err |-> FALSE]

\* lines 272-279: updateKeysPressedState(key_code, pressed_event) on the
\* dictionary ks; err: the call raised KeyError
updateKeysPressedState(ks, key_code, pressed_event) ==
    LET matchto_sym == keycode_to_keysym(key_code)
        ks1 == SetDefault(ks, matchto_sym, 0)
        keyautocount == ks1[matchto_sym]
    IN  IF pressed_event
        THEN [key_states |-> SetItem(ks1, matchto_sym, keyautocount + 1),
              err |-> FALSE]
        ELSE IF matchto_sym \in DOMAIN ks1
             THEN [key_states |-> DelItem(ks1, matchto_sym), err |-> FALSE]
             ELSE [key_states |-> ks1, err |-> TRUE]

\* the event types of the X protocol
X_KeyPress == 2
X_KeyRelease == 3
X_ButtonPress == 4
X_ButtonRelease == 5
X_MotionNotify == 6

\* a decoded event: the fields the hook reads.  time is in units of
\* DEVICE_TIME_TO_SECONDS; iohub_logged_time is set by processevents
Event(type, detail, state, root_x, root_y) ==
    [type |-> type, detail |-> detail, state |-> state,
     root_x |-> root_x, root_y |-> root_y, time |-> 0, iohub_logged_time |-> 0]

\* n & bit == bit, for bit a power of two
HasBit(n, bit) == (n \div bit) % 2 = 1

\* the windows that can hold the input focus; "error": reading the focus
\* raises
Focus == {"0x1", "error"}

\* int(handle, base=16) of the handle strings of the model
HandleValue(handle) ==
    CASE handle = "0x1" -> 1
      [] handle = "0x00" -> 0

\* lines 613-635: xwindowinfo() with the input focus on window `focus`;
\* the fields of the HookManager after it, and the info it returns
xwindowinfo(h, focus) ==
    IF focus = "error"
    THEN [hm |-> [h EXCEPT !.last_windowvar = None,
                           !.last_xwindowinfo = [handle |-> "0x00"]],
          info |-> [handle |-> "0x00"]]
    ELSE IF h.last_windowvar = focus
    THEN [hm |-> h, info |-> h.last_xwindowinfo]
    ELSE [hm |-> [h EXCEPT !.last_windowvar = focus,
                           !.last_xwindowinfo = [handle |-> focus]],
          info |-> [handle |-> focus]]

\* lines 428-433: the modifier state, as the set of the codes summed
ModifierKeyState(mod_mask) ==
    (IF HasBit(mod_mask, 2) THEN {"CAPS_LOCK"} ELSE {}) \cup
    (IF HasBit(mod_mask, 16) THEN {"NUMLOCK"} ELSE {})

\* lines 281-475: makekeyhookevent(event) on the dictionary ks and the
\* fields h; rec is <<>> when updateKeysPressedState raised, and else holds
\* the record built (of its fields, the character fields ucode, key and
\* uchar, read from the keysym tables for event.detail and event.state,
\* are left out)
makekeyhookevent(ks, h, event, focus) ==
    LET key_code == event.detail
        upd == updateKeysPressedState(ks, key_code, event.type = X_KeyPress)
        auto_repeat_count ==
            IF event.type = X_KeyPress THEN keycode_to_keysym(key_code) ELSE 0
        w == xwindowinfo(h, focus)
    IN  IF upd.err
        THEN [key_states |-> upd.key_states, err |-> TRUE, hm |-> h, rec |-> <<>>]
        ELSE [key_states |-> upd.key_states, err |-> FALSE, hm |-> w.hm,
              rec |-> <<[id |-> IF event.type = X_KeyPress
                                THEN "KEYBOARD_PRESS" ELSE "KEYBOARD_RELEASE",
                         time |-> event.time,
                         logged_time |-> event.iohub_logged_time,
                         auto_repeat |-> auto_repeat_count,
                         scan |-> keycode_to_keysym(key_code),
                         key_id |-> event.detail,
                         modifiers |-> ModifierKeyState(event.state),
                         window |-> HandleValue(w.info.handle)]>>]

\* lines 79-84, 114-115: the fields of a new HookManager
NewHookManager ==
    [last_windowvar |-> None, last_xwindowinfo |-> None,
     mouse_position_x |-> 0, mouse_position_y |-> 0,
     pressedMouseButtons |-> 0, scroll_y |-> 0]

\* the hook, constructed (lines 74-116): no key is pressed
HookInit ==
    /\ key_states = <<>>
    /\ keyError = FALSE
    /\ lastEvent = [k \in Keysyms |-> "none"]
    /\ pressCount = [k \in Keysyms |-> 0]
    /\ strayRelease = FALSE
    /\ hm = NewHookManager
    /\ hookevent = <<>>
    /\ calls = <<>>
    /\ built = <<>>
    /\ received = <<>>

\* processevents hands a KeyPress event to makekeyhookevent (lines 197-198,
\* 330-332)
KeyPress(key_code) ==
    LET sym == keycode_to_keysym(key_code)
        r == makekeyhookevent(key_states, hm,
                              Event(X_KeyPress, key_code, 0, 0, 0), "0x1")
    IN  /\ pressCount[sym] < MaxPress
        /\ key_states' = r.key_states
        /\ keyError' = (keyError \/ r.err)
        /\ hm' = r.hm
        /\ hookevent' = r.rec
        /\ lastEvent' = [lastEvent EXCEPT ![sym] = "press"]
        /\ pressCount' = [pressCount EXCEPT ![sym] = @ + 1]
        /\ UNCHANGED strayRelease
        /\ UNCHANGED <<idleVars, eventVars, pairVars, runVars, formVars, widgetVars>>

\* processevents hands a KeyRelease event to makekeyhookevent (lines
\* 200-201, 336-338)
KeyRelease(key_code) ==
    LET sym == keycode_to_keysym(key_code)
        r == makekeyhookevent(key_states, hm,
                              Event(X_KeyRelease, key_code, 0, 0, 0), "0x1")
    IN  /\ key_states' = r.key_states
        /\ keyError' = (keyError \/ r.err)
        /\ hm' = r.hm
        /\ hookevent' = r.rec
        /\ lastEvent' = [lastEvent EXCEPT ![sym] = "release"]
        /\ pressCount' = [pressCount EXCEPT ![sym] = 0]
        /\ strayRelease' = (strayRelease \/ pressCount[sym] = 0)
        /\ UNCHANGED <<idleVars, eventVars, pairVars, runVars, formVars, widgetVars>>

\* the idle-task runner before any idle tick
IdleQuiet == IdleInit /\ prefs.allowUsageStats /\ prefs.checkForUpdates

HookNext ==
    \/ \E c \in KeyCodes : KeyPress(c)
    \/ \E c \in KeyCodes : KeyRelease(c)

HookSpecInit == IdleQuiet /\ HookInit /\ PairQuiet /\ RunQuiet /\ FormQuiet /\ WidgetQuiet

HookSpec == HookSpecInit /\ [][HookNext]_vars

----------------------------------------------------------------------------
(* Properties of the idle-task runner *)

StartedTasks == {t \in TaskNames : tasks[t].status = STARTED}
FinishedTasks == {t \in TaskNames : tasks[t].status = FINISHED}

\* C1: after any sequence of doIdleTasks() calls and thread completions, at
\* most one task has status STARTED and at most one worker thread is alive.
C1_OneTaskAtATime ==
    /\ Cardinality(StartedTasks) <= 1
    /\ Cardinality(alive) <= 1

\* a task is running on its thread after an earlier one ran and finished
C1_Witness ==
    /\ Cardinality(StartedTasks) = 1
    /\ alive = StartedTasks
    /\ FinishedTasks # {}

\* C2: a task created with status SKIP is never started: its status stays
\* SKIP, no thread is created for it and its function is never called.
C2_SkipNeverStarted ==
    \A t \in TaskNames :
        InitialStatus(prefs, t) = SKIP =>
            /\ tasks[t].status = SKIP
            /\ "thread" \notin DOMAIN tasks[t]
            /\ "tStart" \notin DOMAIN tasks[t]
            /\ t \notin alive
            /\ called[t] = 0

\* both skippable tasks were skipped and the poll loop has gone past them to
\* the end of the mapping
C2_Witness ==
    /\ tasks["sendUsageStats"].status = SKIP
    /\ tasks["checkForUpdates"].status = SKIP
    /\ tasks["updateVersionChooser"].status = FINISHED
    /\ ret = <<1>>

\* C3: a status changes only from NOT_STARTED to STARTED and from STARTED to
\* FINISHED; a FINISHED or SKIP status never changes.
C3_StatusOrder ==
    [][\A t \in TaskNames :
          tasks'[t].status # tasks[t].status =>
              <<tasks[t].status, tasks'[t].status>> \in
                  {<<NOT_STARTED, STARTED>>, <<STARTED, FINISHED>>}]_vars

\* a task went through both changes while a task stays skipped
C3_Witness ==
    /\ tasks["checkNews"].status = FINISHED
    /\ tasks["showTips"].status = STARTED
    /\ tasks["checkForUpdates"].status = SKIP

\* C4: if doIdleTasks() keeps being called and every started thread
\* terminates, then eventually every task that was not created SKIP is
\* FINISHED and doIdleTasks() has returned 1.
C4_AllFinished ==
    <>(/\ ret = <<1>>
       /\ \A t \in TaskNames :
              InitialStatus(prefs, t) # SKIP => tasks[t].status = FINISHED)

\* every task that can run has run and the call returned 1
C4_Witness ==
    /\ ret = <<1>>
    /\ prefs.allowUsageStats
    /\ \A t \in TaskNames \ {"checkForUpdates"} : tasks[t].status = FINISHED
    /\ alive = {}

\* the thread of the current task is alive
CurrentAlive ==
    /\ currentTask # None
    /\ "thread" \in DOMAIN tasks[currentTask]
    /\ tasks[currentTask].thread \in alive

\* C5: while the current task's thread is alive, a doIdleTasks() call
\* returns 0 and changes no task record (status, time stamps, thread) and
\* not currentTask; no step at all changes them as long as the thread stays
\* alive, so no later task is started meanwhile.
C5_NoTimeout ==
    /\ [][(CurrentAlive /\ DoIdleTasks) =>
             (ret' = <<0>> /\ UNCHANGED <<tasks, currentTask, alive, called>>)]_vars
    /\ [][(CurrentAlive /\ CurrentAlive') =>
             UNCHANGED <<tasks, currentTask, alive, called>>]_vars

\* a call found the thread of the current task alive and left at line 95,
\* with another task still waiting
C5_Witness ==
    /\ CurrentAlive
    /\ retLine = 95
    /\ \E t \in TaskNames : tasks[t].status = NOT_STARTED

\* the first task after task t in the mapping that is NOT_STARTED
Position(t) == CHOOSE i \in 1..Len(TaskOrder) : TaskOrder[i] = t
WaitingAfter(t) ==
    {u \in TaskNames : Position(u) > Position(t) /\ tasks[u].status = NOT_STARTED}
NextWaiting(t) ==
    CHOOSE u \in WaitingAfter(t) :
        \A w \in WaitingAfter(t) : Position(u) <= Position(w)

\* the keys of a record whose task was started
StartedKeys == {"status", "func", "tstart", "tEnd", "tStart", "thread"}

\* C6: a task whose function raised is handled like one that returned: the
\* exception leaves no trace in the task's record, the next doIdleTasks()
\* call marks the task FINISHED, and that call starts the next NOT_STARTED
\* task.
C6_ExceptionLost ==
    /\ [](\A t \in raised :
            /\ DOMAIN tasks[t] = StartedKeys
            /\ tasks[t].status \in {STARTED, FINISHED}
            /\ tasks[t].status = FINISHED => tasks[t].thread = None)
    /\ [][\A t \in raised :
            (tasks[t].status = STARTED /\ DoIdleTasks) =>
                /\ ret' \in {<<0>>, <<1>>}
                /\ tasks'[t].status = FINISHED
                /\ tasks'[t].thread = None
                /\ tasks'[t].tEnd = now
                /\ WaitingAfter(t) # {} =>
                      /\ tasks'[NextWaiting(t)].status = STARTED
                      /\ currentTask' = NextWaiting(t)
                      /\ NextWaiting(t) \in alive'
                      /\ called'[NextWaiting(t)] = called[NextWaiting(t)] +
                            (IF TaskFunc(NextWaiting(t)) = None THEN 0 ELSE 1)
                      /\ ret' = <<0>>]_vars

\* the function of checkNews raised; the task is FINISHED and the task
\* after it runs
C6_Witness ==
    /\ "checkNews" \in raised
    /\ tasks["checkNews"].status = FINISHED
    /\ tasks["showTips"].status = STARTED
    /\ "showTips" \in alive

\* C7: with allowUsageStats on, the sendUsageStats task is started by the
\* first doIdleTasks() call; with the flag off it is never started.
C7_UsageStatsGate ==
    LET t == tasks["sendUsageStats"] IN
    /\ ~prefs.allowUsageStats =>
          /\ t.status = SKIP
          /\ "thread" \notin DOMAIN t
          /\ called["sendUsageStats"] = 0
    /\ (prefs.allowUsageStats /\ retLine # 0) =>
          /\ t.status \in {STARTED, FINISHED}
          /\ "thread" \in DOMAIN t
          /\ called["sendUsageStats"] = 1

\* the flag is on and the task runs on its thread
C7_Witness ==
    /\ prefs.allowUsageStats
    /\ tasks["sendUsageStats"].status = STARTED
    /\ "sendUsageStats" \in alive
    /\ called["sendUsageStats"] = 1

\* C8: with checkForUpdates on, the checkForUpdates task is eventually
\* started (doIdleTasks() keeps being called and every thread terminates);
\* with the flag off it is never started.
C8_UpdatesGate ==
    /\ prefs.checkForUpdates =>
          <>(tasks["checkForUpdates"].status \in {STARTED, FINISHED})
    /\ [](~prefs.checkForUpdates =>
            /\ tasks["checkForUpdates"].status = SKIP
            /\ called["checkForUpdates"] = 0)

----------------------------------------------------------------------------
(* Properties of HookManager.key_states *)

\* C9: after any sequence of key press and release events, a keysym is in
\* key_states exactly when its most recent event was a press, and its value
\* is the number of press events received for it since its last release,
\* which is at least 1.
C9_KeyStates ==
    /\ DOMAIN key_states \subseteq Keysyms
    /\ \A k \in Keysyms :
        /\ k \in DOMAIN key_states <=> lastEvent[k] = "press"
        /\ k \in DOMAIN key_states =>
              /\ key_states[k] = pressCount[k]
              /\ key_states[k] >= 1

\* one key repeats, one was pressed once, and one was released
C9_Witness ==
    /\ 97 \in DOMAIN key_states /\ key_states[97] = 3
    /\ 115 \in DOMAIN key_states /\ key_states[115] = 1
    /\ lastEvent[0] = "release"
    /\ 0 \notin DOMAIN key_states

\* C10: isKeyPressed(k) is 0 when key k is not pressed and a positive
\* integer otherwise; a release event for a key that is not in key_states
\* raises no error and leaves key_states without the key, with
\* isKeyPressed(k) = 0.
C10_IsKeyPressed ==
    /\ [](~keyError)
    /\ [](\A k \in Keysyms :
            /\ lastEvent[k] # "press" => isKeyPressed(key_states, k) = 0
            /\ lastEvent[k] = "press" => isKeyPressed(key_states, k) > 0)
    /\ [][\A c \in KeyCodes :
            (KeyRelease(c) /\ keycode_to_keysym(c) \notin DOMAIN key_states) =>
                /\ ~keyError'
                /\ keycode_to_keysym(c) \notin DOMAIN key_states'
                /\ isKeyPressed(key_states', keycode_to_keysym(c)) = 0]_vars

\* a release arrived for a key that was not pressed, while another key is
\* pressed
C10_Witness ==
    /\ strayRelease
    /\ ~keyError
    /\ lastEvent[97] = "release"
    /\ isKeyPressed(key_states, 97) = 0
    /\ isKeyPressed(key_states, 0) = 2

\* C11: in the record built for a key press the auto_repeat field is the
\* number of press events received for the key without a release, minus
\* one (0 for the first press); in the record of a release it is 0.
C11_AutoRepeatCount ==
    hookevent # <<>> =>
        LET r == hookevent[1] IN
        /\ r.id = "KEYBOARD_PRESS" => r.auto_repeat = pressCount[r.scan] - 1
        /\ r.id = "KEYBOARD_RELEASE" => r.auto_repeat = 0

----------------------------------------------------------------------------
(* pyXHook.py: mouse events and processevents *)

\* lines 110-113: ioHubMouseButtonMapping.get(event.detail)
ioHubMouseButtonMapping(detail) ==
    CASE detail = 1 -> "MOUSE_BUTTON_LEFT"
      [] detail = 2 -> "MOUSE_BUTTON_MIDDLE"
      [] detail = 3 -> "MOUSE_BUTTON_RIGHT"
      [] OTHER -> None

\* line 576: MouseConstants.getID(currentButton), the bit of the button
MouseButtonID(currentButton) ==
    CASE currentButton = "MOUSE_BUTTON_LEFT" -> 1
      [] currentButton = "MOUSE_BUTTON_RIGHT" -> 2
      [] currentButton = "MOUSE_BUTTON_MIDDLE" -> 4

\* lines 524-543: the event id of the record
MouseEventID(event) ==
    IF event.type = 6
    THEN IF event.state < 128 THEN "MOUSE_MOVE" ELSE "MOUSE_DRAG"
    ELSE IF event.type \in {4, 5}
    THEN IF event.detail \in {4, 5} /\ event.type = 4 THEN "MOUSE_SCROLL"
         ELSE IF event.type = 5 THEN "MOUSE_BUTTON_RELEASE"
         ELSE "MOUSE_BUTTON_PRESS"
    ELSE 0

\* lines 536-543: dy, the change of scroll_y
ScrollDy(event) ==
    IF event.detail = 4 /\ event.type = 4 THEN 1
    ELSE IF event.detail = 5 /\ event.type = 4 THEN -1
    ELSE 0

\* lines 478-607: makemousehookevent(event) on the fields h: the fields
\* after the call and the record built
makemousehookevent(h, event, focus) ==
    LET w == xwindowinfo(h, focus)
        ioHubEventID == MouseEventID(event)
        dy == ScrollDy(event)
        h1 == [w.hm EXCEPT !.scroll_y = @ + dy]
        isButton == event.type \in {4, 5} /\ ioHubEventID # "MOUSE_SCROLL"
        currentButtonID ==
            IF isButton THEN MouseButtonID(ioHubMouseButtonMapping(event.detail))
            ELSE 0
        pressed == IF isButton /\ event.type = 4 THEN 1 ELSE 0
        h2 == IF ~isButton THEN h1
              ELSE IF pressed = 1
              THEN [h1 EXCEPT !.pressedMouseButtons = @ + currentButtonID]
              ELSE [h1 EXCEPT !.pressedMouseButtons = @ - currentButtonID]
    IN  [hm |-> h2,
         rec |-> [id |-> ioHubEventID,
                  time |-> event.time,
                  logged_time |-> event.iohub_logged_time,
                  display_index |-> 0,
                  pressed |-> pressed,
                  button_id |-> currentButtonID,
                  pressed_buttons |-> h2.pressedMouseButtons,
                  x |-> event.root_x,
                  y |-> event.root_y,
                  scroll_dy |-> dy,
                  scroll_y |-> h2.scroll_y,
                  window |-> HandleValue(w.info.handle)]]

\* lines 225-229, with the record built from the position stored before
\* the event
mousemoveevent_Stored(h, event, focus) ==
    makemousehookevent([h EXCEPT !.mouse_position_x = event.root_x,
                                 !.mouse_position_y = event.root_y],
                       [event EXCEPT !.root_x = h.mouse_position_x,
                                     !.root_y = h.mouse_position_y],
                       focus)

\* lines 225-229: mousemoveevent(event)
mousemoveevent(h, event, focus) ==
    makemousehookevent([h EXCEPT !.mouse_position_x = event.root_x,
                                 !.mouse_position_y = event.root_y],
                       event, focus)

\* lines 203-210, with the release of the wheel handled as its press is
ProcessEvent_WheelRelease(st, event, focus) ==
    IF event.type = X_KeyPress \/ event.type = X_KeyRelease
    THEN LET r == makekeyhookevent(st.key_states, st.hm, event, focus)
         IN  IF r.err
             THEN [st EXCEPT !.key_states = r.key_states, !.err = TRUE]
             ELSE [st EXCEPT
                     !.key_states = r.key_states,
                     !.hm = r.hm,
                     !.built = Append(@, r.rec[1]),
                     !.calls = Append(@, <<IF event.type = X_KeyPress
                                           THEN "KeyDown" ELSE "KeyUp",
                                           r.rec[1]>>)]
    ELSE IF event.type = X_ButtonPress
            \/ (event.type = X_ButtonRelease /\ event.detail \in {4, 5})
    THEN LET r == makemousehookevent(st.hm, [event EXCEPT !.type = X_ButtonPress],
                                     focus)
         IN  [st EXCEPT !.hm = r.hm, !.built = Append(@, r.rec)]
    ELSE IF event.type = X_ButtonRelease
    THEN LET r == makemousehookevent(st.hm, event, focus)
         IN  [st EXCEPT !.hm = r.hm, !.built = Append(@, r.rec)]
    ELSE IF event.type = X_MotionNotify
    THEN LET r == mousemoveevent(st.hm, event, focus)
         IN  [st EXCEPT !.hm = r.hm, !.built = Append(@, r.rec)]
    ELSE st

\* lines 195-215: the body of the loop of processevents for one event, on
\* the state st of the call: the dictionary, the fields, the callbacks
\* invoked and the records built so far
ProcessEvent(st, event, focus) ==
    IF event.type = X_KeyPress \/ event.type = X_KeyRelease
    THEN LET r == makekeyhookevent(st.key_states, st.hm, event, focus)
         IN  IF r.err
             THEN [st EXCEPT !.key_states = r.key_states, !.err = TRUE]
             ELSE [st EXCEPT
                     !.key_states = r.key_states,
                     !.hm = r.hm,
                     !.built = Append(@, r.rec[1]),
                     !.calls = Append(@, <<IF event.type = X_KeyPress
                                           THEN "KeyDown" ELSE "KeyUp",
                                           r.rec[1]>>)]
    ELSE IF event.type = X_ButtonPress
    THEN LET r == makemousehookevent(st.hm, event, focus)
         IN  [st EXCEPT !.hm = r.hm, !.built = Append(@, r.rec)]
    ELSE IF event.type = X_ButtonRelease /\ event.detail \notin {4, 5}
    THEN LET r == makemousehookevent(st.hm, event, focus)
         IN  [st EXCEPT !.hm = r.hm, !.built = Append(@, r.rec)]
    ELSE IF event.type = X_MotionNotify
    THEN LET r == mousemoveevent(st.hm, event, focus)
         IN  [st EXCEPT !.hm = r.hm, !.built = Append(@, r.rec)]
    ELSE st

\* lines 192-215: the loop over the events of the reply from the i-th on;
\* an exception ends the call
RECURSIVE EventLoop(_, _, _, _)
EventLoop(st, data, i, focus) ==
    IF i > Len(data) \/ st.err THEN st
    ELSE EventLoop(ProcessEvent(st, data[i], focus), data, i + 1, focus)

\* lines 181-215: processevents(reply), with the clock at logged_time
processevents(ks, h, reply, logged_time, focus) ==
    LET st == [key_states |-> ks, hm |-> h, err |-> FALSE,
               calls |-> <<>>, built |-> <<>>]
        data == [i \in 1..Len(reply.data) |->
                    [reply.data[i] EXCEPT !.iohub_logged_time = logged_time]]
    IN  IF reply.category # "FromServer" THEN st
        ELSE IF reply.client_swapped THEN st
        ELSE IF Len(reply.data) = 0 \/ reply.data[1].type < 2 THEN st
        ELSE EventLoop(st, data, 1, focus)

\* the events of the model
KeyEvents == {Event(t, 38, 0, 0, 0) : t \in {X_KeyPress, X_KeyRelease}}
ButtonEvents ==
    {Event(t, b, 0, 0, 0) : t \in {X_ButtonPress, X_ButtonRelease}, b \in {1, 4, 5}}
MotionEvents == {Event(X_MotionNotify, 0, 0, 0, 0), Event(X_MotionNotify, 0, 256, 1, 0)}
Events == KeyEvents \cup ButtonEvents \cup MotionEvents

\* the events that come first in the two-event replies of the model
FirstEvents ==
    {Event(X_KeyPress, 38, 0, 0, 0), Event(X_ButtonPress, 4, 0, 0, 0),
     Event(X_ButtonPress, 5, 0, 0, 0), Event(X_MotionNotify, 0, 0, 0, 0)}

\* the replies of the model: no, one or two events from the server, and
\* replies that processevents ignores
ReplyData ==
    {<<>>} \cup {<<e>> : e \in Events}
           \cup {<<e1, e2>> : e1 \in FirstEvents, e2 \in Events}

Replies ==
    {[category |-> "FromServer", client_swapped |-> FALSE, data |-> d] :
        d \in ReplyData}
    \cup {[category |-> "FromServer", client_swapped |-> TRUE,
           data |-> <<Event(X_KeyPress, 38, 0, 0, 0)>>],
          [category |-> "FromClient", client_swapped |-> FALSE,
           data |-> <<Event(X_ButtonPress, 4, 0, 0, 0)>>]}

\* the state stays within the bounds of the model
WithinBounds(ks, h) ==
    /\ \A k \in DOMAIN ks : ks[k] <= MaxPress
    /\ h.scroll_y \in -MaxScroll..MaxScroll
    /\ h.pressedMouseButtons \in -MaxButtons..MaxButtons

\* the record extension hands a reply to processevents
ProcessEvents(reply, focus) ==
    LET st == processevents(key_states, hm, reply, 0, focus)
    IN  /\ WithinBounds(st.key_states, st.hm)
        /\ key_states' = st.key_states
        /\ keyError' = (keyError \/ st.err)
        /\ hm' = st.hm
        /\ calls' = st.calls
        /\ built' = st.built
        /\ received' = <<reply>>
        /\ UNCHANGED <<lastEvent, pressCount, strayRelease, hookevent>>
        /\ UNCHANGED <<idleVars, pairVars, runVars, formVars, widgetVars>>

EventNext == \E reply \in Replies : ProcessEvents(reply, "0x1")

EventSpec == HookSpecInit /\ [][EventNext]_vars

\* lines 197-215: the callback the class associates with an event type
Callback(type) ==
    CASE type = X_KeyPress -> "KeyDown"
      [] type = X_KeyRelease -> "KeyUp"
      [] type = X_ButtonPress -> "MouseAllButtonsDown"
      [] type = X_ButtonRelease -> "MouseAllButtonsUp"
      [] type = X_MotionNotify -> "MouseAllMotion"

\* lines 183-190: processevents reads the events of the reply
Accepted(reply) ==
    /\ reply.category = "FromServer"
    /\ ~reply.client_swapped
    /\ Len(reply.data) > 0

\* C12: every keyboard and mouse event of a reply reaches its callback:
\* KeyPress KeyDown, KeyRelease KeyUp, ButtonPress MouseAllButtonsDown,
\* ButtonRelease MouseAllButtonsUp and MotionNotify MouseAllMotion, in the
\* order of the events in the reply.
C12_EveryEventCalled ==
    (received # <<>> /\ Accepted(received[1]) /\ ~keyError) =>
        LET data == received[1].data IN
        /\ Len(calls) = Len(data)
        /\ \A i \in 1..Len(data) : calls[i][1] = Callback(data[i].type)

\* one scroll of the wheel: the press and the release of button detail
WheelScroll(detail) ==
    <<Event(X_ButtonPress, detail, 0, 0, 0), Event(X_ButtonRelease, detail, 0, 0, 0)>>

\* C15: a reply with one scroll of the wheel (a ButtonPress and then a
\* ButtonRelease of detail 4 or 5) builds exactly one record, a MOUSE_SCROLL
\* record, and changes scroll_y by +1 (detail 4) or -1 (detail 5); the
\* release alone builds no record and changes no field of the hook.
C15_OneScrollRecord ==
    [][\A reply \in Replies :
        (ProcessEvents(reply, "0x1") /\ Accepted(reply)) =>
            /\ \A d \in {4, 5} :
                reply.data = WheelScroll(d) =>
                    /\ Len(built') = 1
                    /\ built'[1].id = "MOUSE_SCROLL"
                    /\ built'[1].scroll_dy = (IF d = 4 THEN 1 ELSE -1)
                    /\ hm'.scroll_y = hm.scroll_y + (IF d = 4 THEN 1 ELSE -1)
                    /\ built'[1].scroll_y = hm'.scroll_y
                    /\ hm'.pressedMouseButtons = hm.pressedMouseButtons
            /\ \A d \in {4, 5} :
                reply.data = <<Event(X_ButtonRelease, d, 0, 0, 0)>> =>
                    /\ built' = <<>>
                    /\ calls' = <<>>
                    /\ hm' = hm
                    /\ key_states' = key_states]_vars

\* a reply held one scroll of the wheel, detail 4, and the record built for
\* it is the only one
C15_Witness ==
    /\ received # <<>>
    /\ Accepted(received[1])
    /\ received[1].data = WheelScroll(4)
    /\ Len(built) = 1
    /\ built[1].id = "MOUSE_SCROLL"
    /\ built[1].scroll_y = 1
    /\ hm.scroll_y = 1

----------------------------------------------------------------------------
(* pyXHook.py: two HookManagers and the records they build *)

\* the events handed to the two HookManagers
PairEvents ==
    {Event(X_KeyPress, 38, 0, 0, 0), Event(X_KeyRelease, 38, 0, 0, 0),
     Event(X_ButtonPress, 1, 0, 0, 0), Event(X_ButtonPress, 4, 0, 0, 0),
     Event(X_MotionNotify, 0, 0, 1, 0)}

\* a reply from the server with the one event e
OneEvent(e) == [category |-> "FromServer", client_swapped |-> FALSE, data |-> <<e>>]

\* lines 74-116: the second HookManager after construction
PairInit ==
    /\ other = [key_states |-> <<>>, hm |-> NewHookManager]
    /\ pair = <<>>
    /\ handed = 0

\* the first HookManager alone is handed an event
HandFirst(event, focus) ==
    LET st == processevents(key_states, hm, OneEvent(event), 0, focus)
    IN  /\ handed < MaxEvents
        /\ handed' = handed + 1
        /\ key_states' = st.key_states
        /\ keyError' = (keyError \/ st.err)
        /\ hm' = st.hm
        /\ calls' = st.calls
        /\ built' = st.built
        /\ received' = <<OneEvent(event)>>
        /\ pair' = <<>>
        /\ UNCHANGED other
        /\ UNCHANGED <<lastEvent, pressCount, strayRelease, hookevent>>
        /\ UNCHANGED <<idleVars, runVars, formVars, widgetVars>>

\* the two HookManagers are handed the same event, with the same logged
\* time and the same window in focus
HandBoth(event, focus) ==
    LET st == processevents(key_states, hm, OneEvent(event), 0, focus)
        st2 == processevents(other.key_states, other.hm, OneEvent(event), 0, focus)
    IN  /\ handed < MaxEvents
        /\ handed' = handed + 1
        /\ key_states' = st.key_states
        /\ keyError' = (keyError \/ st.err \/ st2.err)
        /\ hm' = st.hm
        /\ calls' = st.calls
        /\ built' = st.built
        /\ received' = <<OneEvent(event)>>
        /\ other' = [key_states |-> st2.key_states, hm |-> st2.hm]
        /\ pair' = <<st.built, st2.built>>
        /\ UNCHANGED <<lastEvent, pressCount, strayRelease, hookevent>>
        /\ UNCHANGED <<idleVars, runVars, formVars, widgetVars>>

PairNext ==
    \/ \E event \in PairEvents, focus \in Focus : HandFirst(event, focus)
    \/ \E event \in PairEvents, focus \in Focus : HandBoth(event, focus)

PairSpecInit == IdleQuiet /\ HookInit /\ PairInit /\ RunQuiet /\ FormQuiet /\ WidgetQuiet

PairSpec == PairSpecInit /\ [][PairNext]_vars

\* C14 as stated: two HookManagers handed the same event, with the same
\* logged time and the same window in focus, build the same record,
\* whatever events each of them handled before.
C14_SameRecord ==
    pair # <<>> => pair[1] = pair[2]

\* the fields of a record but the totals a mouse record carries
PassedFields(r) ==
    IF "pressed_buttons" \in DOMAIN r
    THEN [r EXCEPT !.pressed_buttons = 0, !.scroll_y = 0]
    ELSE r

\* C14: two HookManagers handed the same event, with the same logged time
\* and the same window in focus, build records that agree in every field
\* but pressed_buttons and scroll_y of a mouse record, whatever events
\* each of them handled before; the records of a key event are the same.
C14_SamePassedFields ==
    pair # <<>> =>
        /\ Len(pair[1]) = Len(pair[2])
        /\ \A i \in 1..Len(pair[1]) :
                PassedFields(pair[1][i]) = PassedFields(pair[2][i])

\* the first HookManager handled a button press and a scroll before the
\* two were handed the same button press
C14_Witness ==
    /\ pair # <<>>
    /\ Len(pair[1]) = 1
    /\ pair[1][1].id = "MOUSE_BUTTON_PRESS"
    /\ pair[1][1].pressed_buttons = 2
    /\ pair[2][1].pressed_buttons = 1
    /\ pair[1][1].scroll_y = 1
    /\ pair[2][1].scroll_y = 0

----------------------------------------------------------------------------
(* pyXHook.py: the hook thread, run() and cancel() *)

\* lines 74-116: the HookManager is constructed and its thread not started
RunInit ==
    /\ pc = "new"
    /\ ctx = "none"
    /\ finished = FALSE
    /\ cancelError = FALSE
    /\ freed = 0

\* the replies the server records for the context
RunReplies ==
    {OneEvent(Event(X_KeyPress, 38, 0, 0, 0)),
     OneEvent(Event(X_KeyRelease, 38, 0, 0, 0)),
     OneEvent(Event(X_ButtonPress, 4, 0, 0, 0)),
     OneEvent(Event(X_ButtonPress, 5, 0, 0, 0))}

\* start() of the thread
Start ==
    /\ pc = "new"
    /\ pc' = "120"
    /\ UNCHANGED <<ctx, finished, cancelError, freed>>
    /\ UNCHANGED <<idleVars, hookVars, eventVars, pairVars, formVars, widgetVars>>

\* lines 120-122: without the RECORD extension run() returns
HasExtension(present) ==
    /\ pc = "120"
    /\ pc' = IF present THEN "125" ELSE "done"
    /\ UNCHANGED <<ctx, finished, cancelError, freed>>
    /\ UNCHANGED <<idleVars, hookVars, eventVars, pairVars, formVars, widgetVars>>

\* lines 125-138: self.ctx = record_create_context(...)
CreateContext ==
    /\ pc = "125"
    /\ ctx' = "created"
    /\ pc' = "142"
    /\ UNCHANGED <<finished, cancelError, freed>>
    /\ UNCHANGED <<idleVars, hookVars, eventVars, pairVars, formVars, widgetVars>>

\* line 142: record_enable_context is called and blocks
EnableContext ==
    /\ pc = "142"
    /\ ctx' = "enabled"
    /\ pc' = "enabled"
    /\ UNCHANGED <<finished, cancelError, freed>>
    /\ UNCHANGED <<idleVars, hookVars, eventVars, pairVars, formVars, widgetVars>>

\* line 142: inside the call, processevents is invoked for a reply
Deliver(reply) ==
    LET st == processevents(key_states, hm, reply, 0, "0x1")
    IN  /\ pc = "enabled"
        /\ ctx = "enabled"
        /\ WithinBounds(st.key_states, st.hm)
        /\ key_states' = st.key_states
        /\ keyError' = (keyError \/ st.err)
        /\ hm' = st.hm
        /\ calls' = st.calls
        /\ built' = st.built
        /\ received' = <<reply>>
        /\ UNCHANGED <<lastEvent, pressCount, strayRelease, hookevent>>
        /\ UNCHANGED <<idleVars, pairVars, runVars, formVars, widgetVars>>

\* line 142: the call returns once the context is disabled
EnableReturns ==
    /\ pc = "enabled"
    /\ ctx = "disabled"
    /\ pc' = "144"
    /\ UNCHANGED <<ctx, finished, cancelError, freed>>
    /\ UNCHANGED <<idleVars, hookVars, eventVars, pairVars, formVars, widgetVars>>

\* line 144: record_free_context(self.ctx), and run() returns
FreeContext ==
    /\ pc = "144"
    /\ ctx' = "freed"
    /\ freed' = freed + 1
    /\ pc' = "done"
    /\ UNCHANGED <<finished, cancelError>>
    /\ UNCHANGED <<idleVars, hookVars, eventVars, pairVars, formVars, widgetVars>>

\* lines 146-149: cancel(), called once from another thread: it sets
\* self.finished and disables self.ctx; reading self.ctx raises before line
\* 125 assigned it, and disabling a context that is not enabled changes
\* nothing
Cancel ==
    /\ ~finished
    /\ finished' = TRUE
    /\ cancelError' = (ctx = "none")
    /\ ctx' = IF ctx = "enabled" THEN "disabled" ELSE ctx
    /\ UNCHANGED <<pc, freed>>
    /\ UNCHANGED <<idleVars, hookVars, eventVars, pairVars, formVars, widgetVars>>

\* the steps of the hook thread
RunThread ==
    \/ Start
    \/ \E present \in BOOLEAN : HasExtension(present)
    \/ CreateContext
    \/ EnableContext
    \/ EnableReturns
    \/ FreeContext

RunNext ==
    \/ RunThread
    \/ \E reply \in RunReplies : Deliver(reply)
    \/ Cancel

RunSpecInit == IdleQuiet /\ HookInit /\ PairQuiet /\ RunInit /\ FormQuiet /\ WidgetQuiet

\* the thread, once it can take a step, takes it
RunFairSpec == RunSpecInit /\ [][RunNext]_vars /\ WF_vars(RunThread)

\* C13: the hook thread stays in the record-enable call, where processevents
\* is invoked for the replies, until cancel() disables the context; after
\* cancel() the call returns, the context is freed exactly once and the
\* thread ends, and no callback is invoked afterwards.
C13_CancelEndsThread ==
    /\ [][(pc = "enabled" /\ pc' # "enabled") => (finished /\ ctx = "disabled")]_vars
    /\ [](finished => <>(pc = "done" /\ freed = 1))
    /\ [](freed <= 1)
    /\ [][finished => (calls' = calls \/ calls' = <<>>)]_vars

----------------------------------------------------------------------------
(* psychopy/visual/form.py: Form.importItems *)

\* line 127: surveyFields
surveyFields ==
    {"responseWidth", "layout", "questionText", "type", "questionWidth", "options"}

\* lines 111-120, with one option accepted
checkOptions_One(options) ==
    IF ~(Len(options) > 0) THEN "ValueError" ELSE "none"

\* lines 111-120, with three options required
checkOptions_Three(options) ==
    IF ~(Len(options) > 2) THEN "ValueError" ELSE "none"

\* lines 111-120: _checkOptions(options): the exception raised, or "none"
checkOptions(options) ==
    IF ~(Len(options) > 1) THEN "ValueError" ELSE "none"

\* lines 122-132, with more fields than the required ones accepted
checkHeaders_Subset(fields) ==
    IF ~(surveyFields \subseteq fields) THEN "NameError" ELSE "none"

\* lines 122-132: _checkHeaders(fields): the exception raised, or "none"
checkHeaders(fields) ==
    IF ~(surveyFields = fields) THEN "NameError" ELSE "none"

\* lines 140-141, 146-147: the two checks of one dict, keys first
checkDict(dicts) ==
    IF checkHeaders(DOMAIN dicts) # "none" THEN checkHeaders(DOMAIN dicts)
    ELSE checkOptions(dicts["options"])

\* lines 139-141: the loop over the list from the i-th dict on; the first
\* exception ends it
RECURSIVE checkList(_, _)
checkList(list, i) ==
    IF i > Len(list) THEN "none"
    ELSE IF checkDict(list[i]) # "none" THEN checkDict(list[i])
    ELSE checkList(list, i + 1)

\* lines 150, 152: `s in items`, for a path given as the sequence of its
\* parts: s is within a part when it is the part or a prefix of it
PartHas(part, s) ==
    \/ part = s
    \/ part = ".xlsx" /\ s = ".xls"

InPath(s, path) == \E i \in 1..Len(path) : PartHas(path[i], s)

\* line 151, 153: read_csv(items).dropna(), read_excel(items).dropna():
\* the rows of the file without those that have an empty cell
RECURSIVE dropna(_)
dropna(rows) ==
    IF rows = <<>> THEN <<>>
    ELSE IF Head(rows).nan THEN dropna(Tail(rows))
    ELSE <<Head(rows)>> \o dropna(Tail(rows))

\* line 163: str.split(','): the cell, a sequence of characters, cut at
\* each comma
RECURSIVE split(_)
split(cell) ==
    IF \A i \in 1..Len(cell) : cell[i] # "," THEN <<cell>>
    ELSE LET k == CHOOSE i \in 1..Len(cell) :
                    cell[i] = "," /\ \A j \in 1..(i - 1) : cell[j] # ","
         IN  <<SubSeq(cell, 1, k - 1)>> \o split(SubSeq(cell, k + 1, Len(cell)))

\* lines 165: the first exception of [_checkOptions(o) for o in options]
RECURSIVE checkRows(_, _)
checkRows(rows, i) ==
    IF i > Len(rows) THEN "none"
    ELSE IF checkOptions(split(rows[i].options)) # "none"
    THEN checkOptions(split(rows[i].options))
    ELSE checkRows(rows, i + 1)

\* line 167: newItems.T.to_dict().values(): one dict for each row
toDicts(columns, rows) ==
    [i \in 1..Len(rows) |->
        [f \in columns |-> IF f = "options" THEN split(rows[i].options)
                            ELSE IF f = "questionText" THEN rows[i].questionText
                            ELSE "x"]]

\* lines 120, 132, 159, 174: raise
Raised(error, read) == [raised |-> error, value |-> <<>>, read |-> read]

\* lines 142, 148, 168, with the list returned in the reverse order
Returned_Reversed(value, read) ==
    [raised |-> "none",
     value |-> [i \in 1..Len(value) |-> value[Len(value) + 1 - i]],
     read |-> read]

\* lines 142, 148, 168: return
Returned(value, read) == [raised |-> "none", value |-> value, read |-> read]

\* lines 98-174: importItems(items): what it raises or returns, and
\* whether it read the file
importItems(arg) ==
    IF arg.kind = "list"
    THEN IF checkList(arg.value, 1) # "none"
         THEN Raised(checkList(arg.value, 1), FALSE)
         ELSE Returned(arg.value, FALSE)
    ELSE IF arg.kind = "dict"
    THEN IF checkDict(arg.value) # "none"
         THEN Raised(checkDict(arg.value), FALSE)
         ELSE Returned(<<arg.value>>, FALSE)
    ELSE IF arg.kind = "None"
    THEN Raised("TypeError", FALSE)
    ELSE IF arg.exists
    THEN IF ~InPath(".csv", arg.value) /\ ~(InPath(".xlsx", arg.value)
                                            \/ InPath(".xls", arg.value))
         THEN Raised("TypeError", FALSE)
         ELSE LET newItems == dropna(arg.rows)
              IN  IF checkHeaders(arg.columns) # "none"
                  THEN Raised("NameError", TRUE)
                  ELSE IF checkRows(newItems, 1) # "none"
                  THEN Raised(checkRows(newItems, 1), TRUE)
                  ELSE Returned(toDicts(arg.columns, newItems), TRUE)
    ELSE Raised("OSError", FALSE)

\* the sets of field names of the model: the required ones, one missing,
\* one more
FieldSets ==
    {surveyFields, surveyFields \ {"options"}, surveyFields \cup {"extra"}}

\* a list of n response options
Options(n) == [i \in 1..n |-> <<"o">>]

\* a dict with the keys `fields`
Dict(fields, questionText, n) ==
    [f \in fields |-> IF f = "options" THEN Options(n)
                       ELSE IF f = "questionText" THEN questionText
                       ELSE "x"]

Dicts ==
    {Dict(fields, q, n) : fields \in FieldSets, q \in {"q1", "q2"}, n \in 0..MaxOptions}

Lists == UNION {[1..k -> Dicts] : k \in 0..MaxItems}

\* the options cell of a file's row with n options: o,o,...
RECURSIVE Cell(_)
Cell(n) == IF n = 1 THEN <<"o">> ELSE <<"o", ",">> \o Cell(n - 1)

\* the rows of a file; nan: the row has an empty cell
Rows ==
    {[questionText |-> "q1", options |-> Cell(n), nan |-> b] :
        n \in 1..MaxOptions, b \in BOOLEAN}

RowLists == UNION {[1..k -> Rows] : k \in 0..MaxItems}

\* paths, as the sequences of their parts
Paths ==
    {<<"items", ".csv">>, <<"items", ".xlsx">>, <<"items", ".xls">>,
     <<"items", ".txt">>, <<"items">>, <<"items", ".csv", ".bak">>,
     <<"my", ".xls", "/", "items", ".txt">>}

\* the arguments of the model: a list of dicts, a dict, None (the default
\* of __init__), the path of a file, the path of no file
FormInputs ==
    {[kind |-> "list", value |-> l] : l \in Lists}
    \cup {[kind |-> "dict", value |-> d] : d \in Dicts}
    \cup {[kind |-> "None"]}
    \cup {[kind |-> "str", value |-> p, exists |-> TRUE, columns |-> c, rows |-> r] :
            p \in Paths, c \in FieldSets, r \in RowLists}
    \cup {[kind |-> "str", value |-> p, exists |-> FALSE, columns |-> {}, rows |-> <<>>] :
            p \in Paths}

FormInit ==
    /\ items \in FormInputs
    /\ outcome = <<>>

\* line 73: self.items = self.importItems(items)
ImportItems ==
    /\ outcome = <<>>
    /\ outcome' = <<importItems(items)>>
    /\ UNCHANGED items
    /\ UNCHANGED <<idleVars, hookVars, eventVars, pairVars, runVars, widgetVars>>

FormNext == ImportItems

FormSpecInit == IdleQuiet /\ HookIdle /\ PairQuiet /\ RunQuiet /\ FormInit /\ WidgetQuiet

FormSpec == FormSpecInit /\ [][FormNext]_vars

----------------------------------------------------------------------------
(* Form.importItems: the claims *)

\* the dict has exactly the required field names
ValidFields(d) == DOMAIN d = surveyFields

\* the dict has the required field names and two options or more
Passes(d) == ValidFields(d) /\ Len(d["options"]) >= 2

\* the extension of a path: its last part, when that begins with a dot
Extension(path) ==
    IF path[Len(path)] \in {".csv", ".xlsx", ".xls", ".txt", ".bak"}
    THEN path[Len(path)]
    ELSE ""

\* the argument is the path of an existing file with a supported extension
SupportedFile(arg) ==
    /\ arg.kind = "str"
    /\ arg.exists
    /\ Extension(arg.value) \in {".csv", ".xlsx", ".xls"}

\* the number of options in the cell of a file's row
NumOptions(cell) == 1 + Cardinality({i \in 1..Len(cell) : cell[i] = ","})

\* the rows of the file that become items: those without an empty cell
Kept(arg) == {i \in 1..Len(arg.rows) : ~arg.rows[i].nan}

\* some item of the argument has field names other than the required ones
AnyBadFields(arg) ==
    CASE arg.kind = "list" ->
            \E i \in 1..Len(arg.value) : ~ValidFields(arg.value[i])
      [] arg.kind = "dict" -> ~ValidFields(arg.value)
      [] arg.kind = "str" -> SupportedFile(arg) /\ arg.columns # surveyFields
      [] OTHER -> FALSE

\* the first item of the argument to fail a check has field names other
\* than the required ones
FirstBadFields(arg) ==
    CASE arg.kind = "list" ->
            \E i \in 1..Len(arg.value) :
                /\ ~ValidFields(arg.value[i])
                /\ \A j \in 1..(i - 1) : Passes(arg.value[j])
      [] arg.kind = "dict" -> ~ValidFields(arg.value)
      [] arg.kind = "str" -> SupportedFile(arg) /\ arg.columns # surveyFields
      [] OTHER -> FALSE

\* some item of the argument has the required field names and fewer than
\* two options
AnyFewOptions(arg) ==
    CASE arg.kind = "list" ->
            \E i \in 1..Len(arg.value) :
                ValidFields(arg.value[i]) /\ Len(arg.value[i]["options"]) < 2
      [] arg.kind = "dict" ->
            ValidFields(arg.value) /\ Len(arg.value["options"]) < 2
      [] arg.kind = "str" ->
            /\ SupportedFile(arg)
            /\ arg.columns = surveyFields
            /\ \E i \in Kept(arg) : NumOptions(arg.rows[i].options) < 2
      [] OTHER -> FALSE

\* the first item of the argument to fail a check has the required field
\* names and fewer than two options
FirstFewOptions(arg) ==
    CASE arg.kind = "list" ->
            \E i \in 1..Len(arg.value) :
                /\ ValidFields(arg.value[i])
                /\ Len(arg.value[i]["options"]) < 2
                /\ \A j \in 1..(i - 1) : Passes(arg.value[j])
      [] arg.kind = "dict" ->
            ValidFields(arg.value) /\ Len(arg.value["options"]) < 2
      [] arg.kind = "str" ->
            /\ SupportedFile(arg)
            /\ arg.columns = surveyFields
            /\ \E i \in Kept(arg) : NumOptions(arg.rows[i].options) < 2
      [] OTHER -> FALSE

\* every item of the argument has the required field names and two
\* options or more
AllPass(arg) ==
    CASE arg.kind = "list" -> \A i \in 1..Len(arg.value) : Passes(arg.value[i])
      [] arg.kind = "dict" -> Passes(arg.value)
      [] arg.kind = "str" ->
            /\ SupportedFile(arg)
            /\ arg.columns = surveyFields
            /\ \A i \in Kept(arg) : NumOptions(arg.rows[i].options) >= 2
      [] OTHER -> FALSE

\* C16 as stated: importItems raises NameError, and returns nothing,
\* whenever the field names of any item (the keys of a dict, the column
\* headers of a file) are not exactly the required ones.
C16_NameError ==
    (outcome # <<>> /\ AnyBadFields(items)) =>
        /\ outcome[1].raised = "NameError"
        /\ outcome[1].value = <<>>

\* C16: importItems raises NameError, and returns nothing, whenever the
\* first item to fail a check has field names (the keys of a dict, the
\* column headers of a file) that are not exactly the required ones, one
\* missing or one more: for a dict or a file whenever its field names
\* differ, for a list whenever an item's field names differ and every item
\* before it passed both checks; when an item before it has the required
\* names and fewer than two options, ValueError is raised instead.
C16_FirstNameError ==
    outcome # <<>> =>
        /\ FirstBadFields(items) =>
                outcome[1].raised = "NameError" /\ outcome[1].value = <<>>
        /\ AnyBadFields(items) =>
                /\ outcome[1].raised \in {"NameError", "ValueError"}
                /\ outcome[1].value = <<>>
                /\ outcome[1].raised = "ValueError" => FirstFewOptions(items)

\* NameError for a list whose second dict has one field more, and for a
\* file without the options column
C16_Witness ==
    /\ outcome # <<>>
    /\ outcome[1].raised = "NameError"
    /\ \/ /\ items.kind = "list"
          /\ Len(items.value) = 2
          /\ Passes(items.value[1])
          /\ "extra" \in DOMAIN items.value[2]
       \/ /\ items.kind = "dict"
          /\ "options" \notin DOMAIN items.value

C18_UnsupportedExtension ==
    (/\ outcome # <<>>
     /\ items.kind = "str"
     /\ items.exists
     /\ Extension(items.value) \notin {".csv", ".xlsx", ".xls"}) =>
        /\ outcome[1].raised = "TypeError"
        /\ ~outcome[1].read

\* the argument is the path of an existing file that importItems reads: the
\* path holds .csv, .xlsx or .xls somewhere
ReadFile(arg) ==
    /\ arg.kind = "str"
    /\ arg.exists
    /\ \E ext \in {".csv", ".xlsx", ".xls"} : InPath(ext, arg.value)

\* the column headers of a file that is read are not the required ones
BadColumns(arg) == ReadFile(arg) /\ arg.columns # surveyFields

\* a row of a file that is read, without an empty cell, has fewer than two
\* options
FewOptionsRow(arg) ==
    /\ ReadFile(arg)
    /\ \E i \in Kept(arg) : NumOptions(arg.rows[i].options) < 2

C20_ReturnsItems ==
    outcome # <<>> =>
        /\ (items.kind = "list" /\ AllPass(items)) =>
                outcome[1].raised = "none" /\ outcome[1].value = items.value
        /\ (items.kind = "dict" /\ AllPass(items)) =>
                outcome[1].raised = "none" /\ outcome[1].value = <<items.value>>

\* a list of two different dicts that pass was returned
C20_Witness ==
    /\ outcome # <<>>
    /\ items.kind = "list"
    /\ Len(items.value) = 2
    /\ AllPass(items)
    /\ items.value[1]["questionText"] = "q1"
    /\ items.value[2]["questionText"] = "q2"
    /\ outcome[1].value = items.value

----------------------------------------------------------------------------
(* form.py: the layout of a Form, draw() and formComplete().  Lengths are  *)
(* in units of 0.005, so that the defaults are whole numbers, and the      *)
(* arithmetic is exact.  markerPos of the scrollbar changes by multiples   *)
(* of 1/scrollSpeed: the model keeps markerPos * scrollSpeed, and the      *)
(* vertical positions that depend on it are kept times scrollSpeed too.    *)

\* line 62: textHeight=.03
textHeight == 6
\* line 65: itemPadding=0.05
itemPadding == 10
\* None as the rating of a slider, which otherwise is a number
NoneRating == -1

\* lines 274-293: getRespHeight(item); longest is the length of the longest
\* option
getRespHeight(item) ==
    IF item.layout = "vert" THEN item.options * textHeight
    ELSE IF item.options <= 3 THEN textHeight
    ELSE textHeight * item.longest - 3 * item.longest

Max(a, b) == IF a > b THEN a ELSE b

\* lines 353-368: the loop of _doLayout from the i-th item on, with
\* self.virtualHeight and self._baseYpositions in f
RECURSIVE LayoutLoop(_, _, _)
LayoutLoop(f, its, i) ==
    IF i > Len(its) THEN f
    ELSE LET questionHeight == its[i].questionHeight
             respHeight == getRespHeight(its[i])
         IN  LayoutLoop(
                [f EXCEPT
                    !.baseYpositions =
                        Append(@, f.virtualHeight
                                  - Max(respHeight, questionHeight)
                                  - textHeight),
                    !.virtualHeight =
                        @ - (Max(respHeight, questionHeight) + itemPadding)],
                its, i + 1)

\* lines 57-93, 342-378: a Form with the items `its` at pos, of size `size`
\* (the vertical parts), after __init__ and its _doLayout(); the sliders
\* have no rating
NewForm(its, pos1, size1) ==
    LayoutLoop([pos |-> pos1,
                size |-> size1,
                scrollSpeed |-> Len(its),
                topEdge |-> pos1 + size1 \div 2,
                virtualHeight |-> 0,
                baseYpositions |-> <<>>,
                markerPos |-> Len(its),
                ratings |-> [i \in 1..Len(its) |-> NoneRating],
                complete |-> <<>>],
               its, 1)

\* min(self._baseYpositions)
MinOf(seq) == CHOOSE m \in {seq[i] : i \in 1..Len(seq)} :
                  \A i \in 1..Len(seq) : m <= seq[i]

\* lines 330-340: _getScrollOffet(), times scrollSpeed
getScrollOffet(f) ==
    LET sizeOffset == (f.scrollSpeed - f.markerPos) * (f.size - itemPadding)
        maxItemPos == MinOf(f.baseYpositions)
    IN  f.scrollSpeed * maxItemPos - f.markerPos * maxItemPos + sizeOffset

\* line 415: items.pos[1] of the item idx, times scrollSpeed
ItemPos(f, idx) ==
    f.scrollSpeed * (f.size \div 2) + f.scrollSpeed * f.baseYpositions[idx]
    - getScrollOffet(f)

\* lines 380-395: _inRange(item), for the position y times scrollSpeed
inRange(f, y) ==
    LET upperRange == f.size \div 2
        lowerRange == -(f.size \div 2)
    IN  y < f.scrollSpeed * upperRange /\ y > f.scrollSpeed * lowerRange

\* lines 421-433: getData()['ratings']
getData(f) == [ratings |-> f.ratings]

\* lines 435-443, with an item taken for answered when its rating is true
formComplete_Truthy(f) ==
    \A i \in 1..Len(getData(f).ratings) :
        getData(f).ratings[i] # NoneRating /\ getData(f).ratings[i] # 0

\* lines 435-443: formComplete(): None not in self.getData()['ratings']
formComplete(f) ==
    ~(\E i \in 1..Len(getData(f).ratings) : getData(f).ratings[i] = NoneRating)

\* the items of the model, as _doLayout reads them: the height of the
\* question's bounding box, the layout and the number of options
LayoutItems ==
    {[questionHeight |-> q, layout |-> l, options |-> 2, longest |-> 1] :
        q \in {6, 30}, l \in {"horiz", "vert"}}

\* the Forms of the model: one to MaxItems items, at the centre of the
\* window, above it or below it, of the default height or a smaller one
Forms ==
    {NewForm(its, pos1, size1) :
        its \in UNION {[1..k -> LayoutItems] : k \in 1..MaxItems},
        pos1 \in {0, 60, -60},
        size1 \in {100, 40}}

WidgetInit ==
    /\ form \in Forms
    /\ drawn = {}

\* lines 397-419: draw(), with the mouse wheel turned by wheel; the marker
\* stays within the ticks of the scrollbar
Draw(wheel) ==
    LET f == [form EXCEPT !.markerPos = @ + wheel]
    IN  /\ f.markerPos \in 0..f.scrollSpeed
        /\ form' = f
        /\ drawn' = {idx \in 1..Len(f.baseYpositions) : inRange(f, ItemPos(f, idx))}
        /\ UNCHANGED <<idleVars, hookVars, eventVars, pairVars, runVars, formVars>>

\* the participant sets the slider of item idx to rating
Respond(idx, rating) ==
    /\ idx \in 1..Len(form.ratings)
    /\ form' = [form EXCEPT !.ratings[idx] = rating, !.complete = <<>>]
    /\ UNCHANGED drawn
    /\ UNCHANGED <<idleVars, hookVars, eventVars, pairVars, runVars, formVars>>

\* lines 435-443: a call of formComplete()
FormComplete ==
    /\ form' = [form EXCEPT !.complete = <<formComplete(form)>>]
    /\ UNCHANGED drawn
    /\ UNCHANGED <<idleVars, hookVars, eventVars, pairVars, runVars, formVars>>

WidgetNext ==
    \/ \E wheel \in {-1, 0, 1} : Draw(wheel)
    \/ \E idx \in 1..MaxItems, rating \in {0, 1} : Respond(idx, rating)
    \/ FormComplete

WidgetSpecInit ==
    IdleQuiet /\ HookIdle /\ PairQuiet /\ RunQuiet /\ FormQuiet /\ WidgetInit

WidgetSpec == WidgetSpecInit /\ [][WidgetNext]_vars

\* C21: draw() draws an item only if its vertical position lies inside the
\* border box of the form, the rectangle of height size[1] centred on the
\* form's pos, whatever the position and the size of the form and the
\* position of the scrollbar.
C21_DrawnInsideBorder ==
    \A idx \in drawn :
        /\ ItemPos(form, idx) <= form.scrollSpeed * (form.pos + form.size \div 2)
        /\ ItemPos(form, idx) >= form.scrollSpeed * (form.pos - form.size \div 2)

\* C22: formComplete() returns True exactly when every item of the form has
\* a response (no rating is None), and False otherwise.
C22_FormComplete ==
    form.complete # <<>> =>
        (form.complete[1] <=> \A i \in 1..Len(form.ratings) : form.ratings[i] # NoneRating)

\* formComplete() returned True for a form whose items are all answered,
\* one of them with the rating 0
C22_Witness ==
    /\ form.complete = <<TRUE>>
    /\ Len(form.ratings) = 2
    /\ form.ratings[1] = 0
    /\ form.ratings[2] = 1

----------------------------------------------------------------------------
(* idle.py: the order of the tasks, the return value and the records *)

\* C23: tasks are started in the insertion order of the mapping: whenever
\* doIdleTasks() starts a task, every task before it in the mapping is
\* FINISHED or SKIP and every task after it is NOT_STARTED or SKIP.
C23_StartOrder ==
    [][\A t \in TaskNames :
          (tasks[t].status # STARTED /\ tasks'[t].status = STARTED) =>
              \A u \in TaskNames :
                  /\ Position(u) < Position(t) =>
                        tasks'[u].status \in {FINISHED, SKIP}
                  /\ Position(u) > Position(t) =>
                        tasks'[u].status \in {NOT_STARTED, SKIP}]_vars

\* the call that noted the end of checkNews started showTips, the next in
\* the mapping
C23_Witness ==
    /\ retLine = 107
    /\ currentTask = "showTips"
    /\ tasks["showTips"].status = STARTED
    /\ tasks["checkNews"].status = FINISHED
    /\ tasks["checkFFMPG"].status = NOT_STARTED

\* C24: doIdleTasks() returns 1 exactly when, as it returns, no task is
\* NOT_STARTED or STARTED; in every other case it returns 0, also when the
\* call itself starts a task (line 107) and when it finds the current
\* thread alive (lines 95, 119).
C24_ReturnValue ==
    /\ retLine # 0 => ret \in {<<0>>, <<1>>}
    /\ ret = <<1>> <=>
          (retLine # 0 /\ \A t \in TaskNames :
                             tasks[t].status \notin {NOT_STARTED, STARTED})
    /\ retLine \in {95, 107, 119} => ret = <<0>>

\* a call returned 1 from line 121 with the last task finished
C24_Witness ==
    /\ ret = <<1>>
    /\ retLine = 121
    /\ tasks["updateVersionChooser"].status = FINISHED
    /\ StartedTasks = {}

\* C25: between the calls of doIdleTasks(), a task is STARTED if and only
\* if it is the record currentTask refers to and it holds a thread that is
\* not None; every FINISHED task has thread None; and currentTask is None
\* whenever no task is STARTED.
C25_StartedIsCurrent ==
    /\ \A t \in TaskNames :
          /\ tasks[t].status = STARTED <=>
                /\ currentTask = t
                /\ "thread" \in DOMAIN tasks[t]
                /\ tasks[t].thread # None
          /\ tasks[t].status = FINISHED =>
                ("thread" \in DOMAIN tasks[t] /\ tasks[t].thread = None)
    /\ StartedTasks = {} => currentTask = None

\* every task is finished, its thread None, and currentTask is None again
C25_Witness ==
    /\ currentTask = None
    /\ tasks["checkNews"].status = FINISHED
    /\ tasks["checkNews"].thread = None
    /\ tasks["updateVersionChooser"].status = FINISHED
    /\ tasks["updateVersionChooser"].thread = None

\* C26: 'tEnd' is not None exactly when the status is FINISHED; 'tStart'
\* is set exactly when the status is STARTED or FINISHED; tStart <= tEnd,
\* and the tEnd of a finished task is at most the tStart of a task started
\* after it; the 'tstart' the record was created with stays None.
C26_Times ==
    \A t \in TaskNames :
        /\ tasks[t].tEnd # NoneTime <=> tasks[t].status = FINISHED
        /\ "tStart" \in DOMAIN tasks[t] <=> tasks[t].status \in {STARTED, FINISHED}
        /\ tasks[t].status = FINISHED => tasks[t].tStart <= tasks[t].tEnd
        /\ tasks[t].tstart = NoneTime
        /\ \A u \in TaskNames :
              (/\ tasks[t].status = FINISHED
               /\ Position(u) > Position(t)
               /\ "tStart" \in DOMAIN tasks[u]) =>
                    tasks[t].tEnd <= tasks[u].tStart

\* the first task ran from 0 to 1 and the next one was started at 2
C26_Witness ==
    /\ tasks["sendUsageStats"].status = FINISHED
    /\ tasks["sendUsageStats"].tStart = 0
    /\ tasks["sendUsageStats"].tEnd = 1
    /\ tasks["sendUsageStats"].tstart = NoneTime
    /\ tasks["checkNews"].status = STARTED
    /\ tasks["checkNews"].tStart = 2

\* C27: once doIdleTasks() has returned 1, every later call returns 1 too,
\* starts no thread and changes no record of a task and not currentTask.
C27_DoneStays ==
    [][ret = <<1>> =>
          /\ ret' = <<1>>
          /\ tasks' = tasks
          /\ currentTask' = currentTask
          /\ alive' = alive
          /\ called' = called]_vars

\* doIdleTasks() returned 1 and time has passed since the last task ended
C27_Witness ==
    /\ ret = <<1>>
    /\ alive = {}
    /\ \A t \in FinishedTasks : tasks[t].tEnd < now

====
